---- MODULE Spec2Model ----
(***************************************************************************)
(* A model of canu's src/utility/stddev.H:                                 *)
(*   - stdDev<TT>, the online (Welford) mean / standard deviation,         *)
(*   - computeStdDev, computeMode, computeMedianAbsoluteDeviation,         *)
(*     the offline estimators over a vector,                               *)
(*   - histogramStatistics, the histogram based statistics.                *)
(*                                                                         *)
(* A double is modelled by the real number it stands for, together with    *)
(* whether the double is that number exactly or only up to rounding.       *)
(***************************************************************************)
EXTENDS Integers, Naturals, Sequences, FiniteSets, TLC

VARIABLES
  \* class stdDev
  _mn,              \* double _mn: mean
  _sn,              \* double _sn: "sum of variances"; the stddev once finalized
  _nn,              \* uint32 _nn: [fin |-> bit 31, cnt |-> bits 0..30]
  sd_status,        \* "running", or "exited" after exit(1)
  sd_call,          \* the last member function called on the stdDev
  sd_ops,           \* number of calls made (bounds the model)
  sd_default,       \* default constructed and only insert() called so far
  sd_data,          \* while sd_default: the values inserted, in order
  sd_undo,          \* the stdDev before an insert(v) that remove(v) then undid
  \* the caller of the offline estimators
  callerDist,       \* the caller's vector<TT>
  b_call,           \* the last call: [fn |-> name, isSorted |-> flag]
  b_mean,           \* double &mean
  b_stddev,         \* double &stddev
  b_mode,           \* TT &mode
  b_median,         \* TT &median
  b_mad,            \* TT &mad
  \* class histogramStatistics
  _finalized,
  _histogramAlloc,
  _histogramMax,
  _histogram,
  _numObjs,
  _mean,
  _stddev,
  _mode,
  _median,
  _mad,
  h_call,           \* the last member function called, with its arguments
  h_ret,            \* what that call returned ("void" for none)
  h_units,          \* every unit sample added so far, as value -> how many
  h_assert,         \* FALSE once assert(deviation < maddatamax) has failed
  h_wasDirty,       \* _finalized was false when the last call began
  h_unitAscending   \* every add() so far added one sample, no value below the last

sdVars   == <<_mn, _sn, _nn, sd_status, sd_call, sd_ops, sd_default, sd_data,
             sd_undo>>
bVars    == <<callerDist, b_call, b_mean, b_stddev, b_mode, b_median, b_mad>>
hState   == <<_finalized, _histogramAlloc, _histogramMax, _histogram>>
hCache   == <<_numObjs, _mean, _stddev, _mode, _median, _mad>>
hGhost   == <<h_units, h_wasDirty, h_unitAscending>>
hVars    == <<hState, hCache, h_call, h_ret, h_assert, hGhost>>
vars     == <<sdVars, bVars, hVars>>

(***************************************************************************)
(* Bounds of the model.                                                    *)
(***************************************************************************)
MaxOps      == 6    \* calls made on one stdDev
MaxCount    == 4    \* largest sample count the arithmetic is carried out for
MaxLen      == 6    \* longest vector handed to the offline estimators
MaxValue    == 3    \* largest value added to the histogram
MaxTotal    == 4    \* most samples held by the histogram
MaxAddCount == 2    \* largest count of one add()

(***************************************************************************)
(* double.  A double is modelled by the real number it stands for and by   *)
(* whether it is that number exactly:                                      *)
(*   [k |-> "rat",  n, d, r, z]  the fraction n/d in lowest terms, d > 0;  *)
(*                            r = FALSE: the double is exactly n/d,        *)
(*                            r = TRUE: it is n/d up to the rounding of    *)
(*                            the operations that led to it;               *)
(*                            z: of an exact 0, 1 for +0.0, -1 for -0.0,   *)
(*                            0 when the sign hangs on a rounding          *)
(*   [k |-> "sqrt", n, d, r]  sign(n) * sqrt(|n|/d), irrational, r = TRUE  *)
(*   [k |-> "inf",  n, ...]   +inf (n = 1) or -inf (n = -1)                *)
(*   NaN                                                                   *)
(*   NaNOrZero                the square root of a rounded 0: NaN when the *)
(*                            rounding fell below 0, a number near 0 else  *)
(*   Undetermined             a double that hangs on the rounding error of *)
(*                            an operand that is 0 only up to rounding     *)
(*                            (its sign, or whether it is 0 at all): the   *)
(*                            model does not say which double it is        *)
(* +, -, * and / are correctly rounded: the result of exact operands is    *)
(* exact when it is representable, which for the magnitudes of the model   *)
(* (numerators below 2^31) is when its denominator is a power of two.      *)
(***************************************************************************)
Abs(x) == IF x < 0 THEN -x ELSE x

Sign(i) == IF i < 0 THEN -1 ELSE IF i = 0 THEN 0 ELSE 1

RECURSIVE GCD(_, _)
GCD(a, b) == IF b = 0 THEN a ELSE GCD(b, a % b)

RECURSIVE IsPow2(_)
IsPow2(d) == d = 1 \/ (d > 1 /\ d % 2 = 0 /\ IsPow2(d \div 2))

NaN          == [k |-> "nan",  n |-> 0, d |-> 1, r |-> FALSE, z |-> 1]
NaNOrZero    == [k |-> "nan0", n |-> 0, d |-> 1, r |-> TRUE,  z |-> 1]
Undetermined == [k |-> "any",  n |-> 0, d |-> 1, r |-> TRUE,  z |-> 1]
Inf(s)       == [k |-> "inf",  n |-> s, d |-> 1, r |-> FALSE, z |-> 1]

\* the exact 0 of sign s: +0.0, -0.0, or one of them as a rounding fell
Zero(s) == [k |-> "rat", n |-> 0, d |-> 1, r |-> FALSE, z |-> s]

\* the real number n/d (d # 0), normalised
Frac(n, d) ==
  LET g == GCD(Abs(n), Abs(d))
      s == IF d < 0 THEN -1 ELSE 1
  IN  [k |-> "rat", n |-> (s * n) \div g, d |-> (s * d) \div g,
       r |-> FALSE, z |-> 1]

\* the double nearest to n/d, computed of operands of which some were rounded
\* (r) or none
Rat(n, d, r) ==
  LET f == Frac(n, d) IN [f EXCEPT !.r = r \/ ~IsPow2(f.d)]

\* the conversion of an integer to double
Num(i) == [k |-> "rat", n |-> i, d |-> 1, r |-> FALSE, z |-> 1]

IsExactZero(x)   == x.k = "rat" /\ x.n = 0 /\ x.r = FALSE
IsRoundedZero(x) == x.k = "rat" /\ x.n = 0 /\ x.r = TRUE

\* the sign bit of a double as 1 or -1, 0 when the model does not determine it
SignOf(x) ==
  CASE x.k \in {"nan", "nan0", "any"} -> 0
    [] IsRoundedZero(x) -> 0
    [] IsExactZero(x)   -> x.z
    [] OTHER            -> Sign(x.n)

RNeg(x) ==
  CASE IsExactZero(x) -> Zero(-x.z)
    [] x.k \in {"rat", "sqrt", "inf"} /\ ~IsExactZero(x) -> [x EXCEPT !.n = -x.n]
    [] OTHER -> x

\* no double of the code adds a square root to anything
RAdd(x, y) ==
  CASE x.k = "nan" \/ y.k = "nan" -> NaN
    [] x.k \in {"any", "nan0"} \/ y.k \in {"any", "nan0"} -> Undetermined
    [] x.k = "inf" /\ y.k = "inf" -> IF x.n = y.n THEN x ELSE NaN
    [] x.k = "inf" /\ y.k = "rat" -> x
    [] x.k = "rat" /\ y.k = "inf" -> y
    [] x.k = "rat" /\ y.k = "rat" ->
         IF IsExactZero(x) /\ IsExactZero(y)
           THEN Zero(IF x.z = 1 \/ y.z = 1 THEN 1
                     ELSE IF x.z = -1 /\ y.z = -1 THEN -1 ELSE 0)
         ELSE IF IsExactZero(x) THEN y
         ELSE IF IsExactZero(y) THEN x
         ELSE Rat(x.n * y.d + y.n * x.d, x.d * y.d, x.r \/ y.r)

RSub(x, y) == RAdd(x, RNeg(y))

RECURSIVE ISqrtFrom(_, _)
ISqrtFrom(n, r) == IF r * r >= n THEN r ELSE ISqrtFrom(n, r + 1)
IsSquare(n) == LET r == ISqrtFrom(n, 0) IN r * r = n

\* s * sqrt(f) of a fraction f > 0, rounded (r) or not before the root
SignedRoot(s, f, r) ==
  IF IsSquare(f.n) /\ IsSquare(f.d)
    THEN Rat(s * ISqrtFrom(f.n, 0), ISqrtFrom(f.d, 0), r)
    ELSE [k |-> "sqrt", n |-> s * f.n, d |-> f.d, r |-> TRUE, z |-> 1]

\* sqrt()
RSqrt(x) ==
  CASE x.k = "nan"  -> NaN
    [] x.k = "any"  -> Undetermined
    [] x.k = "nan0" -> NaNOrZero
    [] x.k = "inf"  -> IF x.n > 0 THEN x ELSE NaN
    [] x.k = "rat" /\ x.n < 0 -> NaN
    [] x.k = "rat" /\ x.n = 0 -> IF x.r THEN NaNOrZero ELSE x
    [] x.k = "rat" /\ x.n > 0 -> SignedRoot(1, Frac(x.n, x.d), x.r)

RMul(x, y) ==
  CASE x.k = "nan" \/ y.k = "nan" -> NaN
    [] x.k = "any" \/ y.k = "any" -> Undetermined
    [] x.k = "inf" \/ y.k = "inf" ->
         IF IsExactZero(x) \/ IsExactZero(y) THEN NaN
         ELSE IF SignOf(x) * SignOf(y) = 0 THEN Undetermined
         ELSE Inf(SignOf(x) * SignOf(y))
    [] x.k = "nan0" \/ y.k = "nan0" -> NaNOrZero
    [] x.k = "rat" /\ y.k = "rat" ->
         IF IsExactZero(x) \/ IsExactZero(y)
           THEN Zero(SignOf(x) * SignOf(y))
           ELSE Rat(x.n * y.n, x.d * y.d, x.r \/ y.r)
    [] x.k = "sqrt" /\ y.k = "sqrt" ->
         SignedRoot(Sign(x.n) * Sign(y.n),
                    Frac(Abs(x.n) * Abs(y.n), x.d * y.d), TRUE)
    [] x.k = "rat" /\ y.k = "sqrt" ->
         IF IsExactZero(x) THEN Zero(SignOf(x) * SignOf(y))
         ELSE IF x.n = 0 THEN x
         ELSE SignedRoot(Sign(x.n) * Sign(y.n),
                         Frac(x.n * x.n * Abs(y.n), x.d * x.d * y.d), TRUE)
    [] x.k = "sqrt" /\ y.k = "rat" ->
         IF IsExactZero(y) THEN Zero(SignOf(x) * SignOf(y))
         ELSE IF y.n = 0 THEN y
         ELSE SignedRoot(Sign(x.n) * Sign(y.n),
                         Frac(y.n * y.n * Abs(x.n), y.d * y.d * x.d), TRUE)

\* no double of the code divides a square root, or divides by one
RDiv(x, y) ==
  CASE x.k = "nan" \/ y.k = "nan" -> NaN
    [] x.k = "any" \/ y.k \in {"any", "nan0"} \/ IsRoundedZero(y) -> Undetermined
    [] x.k = "inf" /\ y.k = "inf" -> NaN
    [] x.k = "inf" /\ y.k = "rat" ->
         IF SignOf(y) = 0 THEN Undetermined ELSE Inf(x.n * SignOf(y))
    [] x.k = "rat" /\ y.k = "inf" -> Zero(SignOf(x) * y.n)
    [] x.k = "nan0" /\ y.k = "inf" -> NaNOrZero
    [] x.k = "nan0" /\ y.k = "rat" ->
         IF IsExactZero(y) THEN Undetermined ELSE NaNOrZero
    [] x.k = "rat" /\ y.k = "rat" ->
         IF IsExactZero(y)
           THEN IF IsExactZero(x) THEN NaN
                ELSE IF SignOf(x) * SignOf(y) = 0 THEN Undetermined
                ELSE Inf(SignOf(x) * SignOf(y))
           ELSE IF IsExactZero(x)
                  THEN Zero(SignOf(x) * SignOf(y))
                  ELSE Rat(x.n * y.d, x.d * y.n, x.r \/ y.r)

(***************************************************************************)
(* class stdDev: online mean and std.dev (Welford).                        *)
(***************************************************************************)
CountMax == 2147483647   \* 0x7fffffff

\* uint32 arithmetic on _nn, bit 31 apart from bits 0..30
NNPlusOne(nn) ==
  IF nn.cnt = CountMax THEN [fin |-> ~nn.fin, cnt |-> 0]
                       ELSE [nn EXCEPT !.cnt = nn.cnt + 1]
NNMinusOne(nn) ==
  IF nn.cnt = 0 THEN [fin |-> ~nn.fin, cnt |-> CountMax]
                ELSE [nn EXCEPT !.cnt = nn.cnt - 1]

IsFull(nn)      == nn.fin = FALSE /\ nn.cnt = CountMax     \* _nn == 0x7fffffff
IsFinalized(nn) == nn.fin                                  \* _nn & 0x80000000
IsEmpty(nn)     == nn.fin = FALSE /\ nn.cnt = 0            \* _nn == 0

\* the checks of insert() and of remove() that end in exit(1)
InsertFails(nn) == IsFull(nn) \/ IsFinalized(nn)
RemoveFails(nn) == IsEmpty(nn) \/ IsFinalized(nn)

\* the assignments of insert(), on a stdDev that is neither full nor finalized
InsertedSumOfMeans(s, val) ==
  LET n0  == NNPlusOne(s.nn)
      mn1 == RAdd(s.mn, RDiv(RSub(Num(val), s.mn), Num(n0.cnt)))
  IN  [mn |-> mn1,
       sn |-> RAdd(s.sn, RMul(RSub(Num(val), mn1), RSub(Num(val), mn1))),
       nn |-> n0]
Inserted(s, val) ==
  LET m0  == s.mn
      s0  == s.sn
      n0  == NNPlusOne(s.nn)
      mn1 == RAdd(m0, RDiv(RSub(Num(val), m0), Num(n0.cnt)))
  IN  [mn |-> mn1,
       sn |-> RAdd(s0, RMul(RSub(Num(val), m0), RSub(Num(val), mn1))),
       nn |-> n0]

\* the assignments of remove(), on a stdDev that is neither empty nor finalized
RemovedStaleMean(s, val) ==
  LET n0 == NNMinusOne(s.nn)
      m0 == s.mn
      s0 == RSub(s.sn, RMul(RSub(Num(val), m0), RSub(Num(val), s.mn)))
  IN  [mn |-> m0, sn |-> s0, nn |-> n0]
Removed(s, val) ==
  LET n0 == NNMinusOne(s.nn)
      m0 == IF IsEmpty(n0)
              THEN Num(0)
              ELSE RDiv(RSub(RMul(Num(s.nn.cnt), s.mn), Num(val)), Num(n0.cnt))
      s0 == RSub(s.sn, RMul(RSub(Num(val), m0), RSub(Num(val), s.mn)))
  IN  [mn |-> m0, sn |-> s0, nn |-> n0]

size(s) == s.nn.cnt                                        \* _nn & 0x7fffffff
mean(s) == s.mn

variance(s) ==
  IF IsFinalized(s.nn)
    THEN RMul(s.sn, s.sn)
    ELSE IF s.nn.cnt < 2 THEN Num(0) ELSE RDiv(s.sn, Num(s.nn.cnt - 1))

stddev(s) ==
  IF IsFinalized(s.nn) THEN s.sn ELSE RSqrt(variance(s))

FinalizedKeepsSum(s) ==
  [mn |-> s.mn, sn |-> s.sn, nn |-> [s.nn EXCEPT !.fin = TRUE]]
Finalized(s) ==
  [mn |-> s.mn, sn |-> stddev(s), nn |-> [s.nn EXCEPT !.fin = TRUE]]

SD == [mn |-> _mn, sn |-> _sn, nn |-> _nn]

\* the values insert() and remove() are called with
SdVals == {0, 1, 3}

\* the arguments stdDev(mn, sn, nn) is constructed with: the defaults, a seeded
\* mean alone, pre-aggregated statistics of two samples, a full set, and a
\* set constructed finalized
SdSeeds ==
  { [mn |-> Num(0), sn |-> Num(0), nn |-> [fin |-> FALSE, cnt |-> 0]],
    [mn |-> Num(2), sn |-> Num(0), nn |-> [fin |-> FALSE, cnt |-> 0]],
    [mn |-> Num(2), sn |-> Num(2), nn |-> [fin |-> FALSE, cnt |-> 2]],
    [mn |-> Num(0), sn |-> Num(0), nn |-> [fin |-> FALSE, cnt |-> CountMax]],
    [mn |-> Num(2), sn |-> Num(1), nn |-> [fin |-> TRUE,  cnt |-> 2]] }

NoUndo == [stage |-> "none"]

SdDefault == [mn |-> Num(0), sn |-> Num(0), nn |-> [fin |-> FALSE, cnt |-> 0]]

SdInit ==
  /\ \E s \in SdSeeds :
       /\ _mn = s.mn /\ _sn = s.sn /\ _nn = s.nn
       /\ sd_default = (s = SdDefault)
  /\ sd_status = "running"
  /\ sd_call = "stdDev"
  /\ sd_ops = 0
  /\ sd_data = << >>
  /\ sd_undo = NoUndo

SdFixed ==
  /\ _mn = Num(0) /\ _sn = Num(0) /\ _nn = [fin |-> FALSE, cnt |-> 0]
  /\ sd_status = "running" /\ sd_call = "stdDev" /\ sd_ops = 0
  /\ sd_default = TRUE /\ sd_data = << >> /\ sd_undo = NoUndo

SdCanCall == sd_status = "running" /\ sd_ops < MaxOps

insert(val) ==
  /\ SdCanCall
  /\ UNCHANGED <<bVars, hVars>>
  /\ sd_call' = "insert"
  /\ sd_ops' = sd_ops + 1
  /\ IF InsertFails(_nn)
       THEN /\ sd_status' = "exited"
            /\ sd_undo' = NoUndo
            /\ UNCHANGED <<_mn, _sn, _nn, sd_default, sd_data>>
       ELSE /\ _nn.cnt < MaxCount
            /\ LET t == Inserted(SD, val)
               IN  _mn' = t.mn /\ _sn' = t.sn /\ _nn' = t.nn
            /\ sd_data' = IF sd_default THEN Append(sd_data, val) ELSE sd_data
            /\ sd_undo' = [stage |-> "inserted", val |-> val, before |-> SD]
            /\ UNCHANGED <<sd_status, sd_default>>

remove(val) ==
  /\ SdCanCall
  /\ UNCHANGED <<bVars, hVars>>
  /\ sd_call' = "remove"
  /\ sd_ops' = sd_ops + 1
  /\ IF RemoveFails(_nn)
       THEN /\ sd_status' = "exited"
            /\ sd_undo' = NoUndo
            /\ UNCHANGED <<_mn, _sn, _nn, sd_default, sd_data>>
       ELSE /\ _nn.cnt <= MaxCount
            /\ LET t == Removed(SD, val)
               IN  _mn' = t.mn /\ _sn' = t.sn /\ _nn' = t.nn
            /\ sd_default' = FALSE
            /\ sd_data' = << >>
            /\ sd_undo' = IF sd_undo.stage = "inserted" /\ sd_undo.val = val
                             THEN [sd_undo EXCEPT !.stage = "removed"]
                             ELSE NoUndo
            /\ UNCHANGED sd_status

finalize ==
  /\ SdCanCall
  /\ UNCHANGED <<bVars, hVars>>
  /\ sd_call' = "finalize"
  /\ sd_ops' = sd_ops + 1
  /\ LET t == Finalized(SD)
     IN  _mn' = t.mn /\ _sn' = t.sn /\ _nn' = t.nn
  /\ sd_undo' = NoUndo
  /\ UNCHANGED <<sd_status, sd_default, sd_data>>

SdNext ==
  \/ \E val \in SdVals : insert(val)
  \/ \E val \in SdVals : remove(val)
  \/ finalize

(***************************************************************************)
(* The offline estimators.  TT is int.  Each takes its vector by value:    *)
(* dist is the callee's copy, and the sort is of that copy.                *)
(***************************************************************************)
Max(a, b) == IF a < b THEN b ELSE a

RECURSIVE SortedInsert(_, _)
SortedInsert(v, sorted) ==
  IF sorted = << >> \/ v <= Head(sorted)
    THEN <<v>> \o sorted
    ELSE <<Head(sorted)>> \o SortedInsert(v, Tail(sorted))

\* sort(dist.begin(), dist.end())
RECURSIVE Sort(_)
Sort(dist) == IF dist = << >> THEN << >> ELSE SortedInsert(Head(dist), Sort(Tail(dist)))

\* the sum of f over lo..hi, as a double
RECURSIVE RSum(_, _, _)
RSum(f, lo, hi) == IF hi < lo THEN Num(0) ELSE RAdd(RSum(f, lo, hi - 1), f[hi])

\* dist[x] for the 0-based x of the code
At(dist, x) == dist[x + 1]

\* what the caller's vector is once a call that ended with the callee's
\* vector `local` has returned: the parameter is vector<TT> dist
CallerAfterByReference(caller, local) == local
CallerAfter(caller, local) == caller

computeStdDev(distIn, isSorted) ==
  IF Len(distIn) = 0
    THEN [mean |-> Num(0), stddev |-> Num(0), dist |-> distIn]
    ELSE
      LET dist       == IF isSorted = FALSE THEN Sort(distIn) ELSE distIn
          n          == Len(dist)
          median     == At(dist, (1 * n) \div 2)
          oneThird   == At(dist, (1 * n) \div 3)
          twoThird   == At(dist, (2 * n) \div 3)
          approxStd  == Max(median - oneThird, twoThird - median)
          biggest    == median + approxStd * 5
          smallest   == median - approxStd * 5
          inside     == [x \in 0 .. n - 1 |->
                           smallest <= At(dist, x) /\ At(dist, x) <= biggest]
          numSamples == Cardinality({x \in 0 .. n - 1 : inside[x]})
          total      == RSum([x \in 0 .. n - 1 |->
                               IF inside[x] THEN Num(At(dist, x)) ELSE Num(0)],
                             0, n - 1)
          mean1      == RDiv(total, Num(numSamples))
          squares    == RSum([x \in 0 .. n - 1 |->
                               IF inside[x]
                                 THEN RMul(RSub(Num(At(dist, x)), mean1),
                                           RSub(Num(At(dist, x)), mean1))
                                 ELSE Num(0)],
                             0, n - 1)
      IN  IF numSamples = 0
            THEN [mean |-> total, stddev |-> Num(0), dist |-> dist]
            ELSE [mean   |-> mean1,
                  stddev |-> IF numSamples > 1
                               THEN RSqrt(RDiv(squares, Num(numSamples - 1)))
                               ELSE squares,
                  dist   |-> dist]

\* the loop of computeMode from index x on, and the update after it
RECURSIVE ModeScan(_, _, _)
ModeScan(dist, x, m) ==
  IF x >= Len(dist)
    THEN IF m.modeCnt < m.modeTmpCnt THEN m.modeTmpVal ELSE m.modeVal
    ELSE
      LET new == At(dist, x) # m.modeTmpVal
          upd == new /\ m.modeCnt < m.modeTmpCnt
          m1  == [modeCnt    |-> IF upd THEN m.modeTmpCnt ELSE m.modeCnt,
                  modeVal    |-> IF upd THEN m.modeTmpVal ELSE m.modeVal,
                  modeTmpCnt |-> IF new THEN 1 ELSE m.modeTmpCnt,
                  modeTmpVal |-> IF new THEN At(dist, x) ELSE m.modeTmpVal]
      IN  ModeScan(dist, x + 1, [m1 EXCEPT !.modeTmpCnt = m1.modeTmpCnt + 1])

computeMode(distIn, isSorted) ==
  IF Len(distIn) = 0
    THEN [mode |-> 0, dist |-> distIn]
    ELSE
      LET dist == IF isSorted = FALSE THEN Sort(distIn) ELSE distIn
      IN  [mode |-> ModeScan(dist, 0, [modeCnt |-> 0, modeVal |-> 0,
                                       modeTmpCnt |-> 0, modeTmpVal |-> 0]),
           dist |-> dist]

computeMedianAbsoluteDeviation(distIn, isSorted) ==
  IF Len(distIn) = 0
    THEN [median |-> 0, mad |-> 0, dist |-> distIn]
    ELSE
      LET dist   == IF isSorted = FALSE THEN Sort(distIn) ELSE distIn
          median == At(dist, Len(dist) \div 2)
          m      == Sort([ii \in 1 .. Len(dist) |->
                            IF dist[ii] < median THEN median - dist[ii]
                                                 ELSE dist[ii] - median])
      IN  [median |-> median, mad |-> At(m, Len(m) \div 2), dist |-> dist]

\* the values of the caller's vector
BatchVals == {0, 1, 5}

RECURSIVE SeqsUpTo(_)
SeqsUpTo(len) ==
  IF len = 0 THEN {<< >>}
  ELSE LET shorter == SeqsUpTo(len - 1)
       IN  shorter \cup {Append(q, v) : q \in {r \in shorter : Len(r) = len - 1},
                                        v \in BatchVals}

NoCall == [fn |-> "none", isSorted |-> FALSE]

BFixedOutputs ==
  /\ b_call = NoCall
  /\ b_mean = Num(0) /\ b_stddev = Num(0)
  /\ b_mode = 0 /\ b_median = 0 /\ b_mad = 0

BInit  == callerDist \in SeqsUpTo(MaxLen) /\ BFixedOutputs
BFixed == callerDist = << >> /\ BFixedOutputs

CallComputeStdDev(isSorted) ==
  /\ UNCHANGED <<sdVars, hVars>>
  /\ LET r == computeStdDev(callerDist, isSorted)
     IN  /\ b_call' = [fn |-> "computeStdDev", isSorted |-> isSorted]
         /\ callerDist' = CallerAfter(callerDist, r.dist)
         /\ b_mean' = r.mean
         /\ b_stddev' = r.stddev
         /\ UNCHANGED <<b_mode, b_median, b_mad>>

CallComputeMode(isSorted) ==
  /\ UNCHANGED <<sdVars, hVars>>
  /\ LET r == computeMode(callerDist, isSorted)
     IN  /\ b_call' = [fn |-> "computeMode", isSorted |-> isSorted]
         /\ callerDist' = CallerAfter(callerDist, r.dist)
         /\ b_mode' = r.mode
         /\ UNCHANGED <<b_mean, b_stddev, b_median, b_mad>>

CallComputeMedianAbsoluteDeviation(isSorted) ==
  /\ UNCHANGED <<sdVars, hVars>>
  /\ LET r == computeMedianAbsoluteDeviation(callerDist, isSorted)
     IN  /\ b_call' = [fn |-> "computeMedianAbsoluteDeviation", isSorted |-> isSorted]
         /\ callerDist' = CallerAfter(callerDist, r.dist)
         /\ b_median' = r.median
         /\ b_mad' = r.mad
         /\ UNCHANGED <<b_mean, b_stddev, b_mode>>

BNext ==
  \/ \E isSorted \in BOOLEAN : CallComputeStdDev(isSorted)
  \/ \E isSorted \in BOOLEAN : CallComputeMode(isSorted)
  \/ \E isSorted \in BOOLEAN : CallComputeMedianAbsoluteDeviation(isSorted)

(***************************************************************************)
(* class histogramStatistics.  _histogram is modelled on the indices the   *)
(* bounded values reach, 0 .. MaxValue; the array holds _histogramAlloc    *)
(* counters, all others zero.                                              *)
(***************************************************************************)
HistogramAllocInit == 1048576    \* 1024 * 1024

\* while (_histogramAlloc <= data) resizeArray(..., _histogramAlloc * 2, ...)
RECURSIVE GrownAlloc(_, _)
GrownAlloc(alloc, data) ==
  IF alloc <= data THEN GrownAlloc(alloc * 2, data) ELSE alloc

\* if (_histogramMax < data) _histogramMax = data
AddedMaxLastWins(hmax, data) == data
AddedMax(hmax, data) == IF hmax < data THEN data ELSE hmax

\* the members after the constructor
Constructed ==
  [finalized      |-> FALSE,
   histogramAlloc |-> HistogramAllocInit,
   histogramMax   |-> 0,
   histogram      |-> [ii \in 0 .. MaxValue |-> 0],
   numObjs |-> 0, mean |-> Num(0), stddev |-> Num(0),
   mode |-> 0, median |-> 0, mad |-> 0,
   assertOk |-> TRUE]

\* the members after add(data, count)
Added(h, data, count) ==
  [h EXCEPT !.histogramAlloc  = GrownAlloc(h.histogramAlloc, data),
            !.histogramMax    = AddedMax(h.histogramMax, data),
            !.histogram[data] = @ + count,
            !.finalized       = FALSE]

\* the members after clearStatistics()
Cleared(h) ==
  [h EXCEPT !.numObjs = 0, !.mean = Num(0), !.stddev = Num(0),
            !.mode = 0, !.median = 0, !.mad = 0]

\* the sum of the integers f[lo .. hi]
RECURSIVE NSum(_, _, _)
NSum(f, lo, hi) == IF hi < lo THEN 0 ELSE NSum(f, lo, hi - 1) + f[hi]

\* for (ii=0; ii <= _histogramMax; ii++) if (_histogram[ii] > _histogram[_mode]) _mode = ii
RECURSIVE ModeLoop(_, _, _, _)
ModeLoop(hist, hmax, ii, mode) ==
  IF ii > hmax THEN mode
  ELSE ModeLoop(hist, hmax, ii + 1, IF hist[ii] > hist[mode] THEN ii ELSE mode)

\* the loop that finds the median of _histogram, and then of maddata: from index
\* ii on, with `seen` samples summed so far; the sum itself if it never breaks
RECURSIVE MedianLoop(_, _, _, _, _)
MedianLoop(hist, hmax, numObjs, ii, seen) ==
  IF ii > hmax THEN seen
  ELSE LET seen1 == seen + hist[ii]
       IN  IF seen1 >= numObjs \div 2
             THEN ii
             ELSE MedianLoop(hist, hmax, numObjs, ii + 1, seen1)

\* uint64 maddatamax = _histogramMax + 1
MadDataMaxNoPlusOne(hmax) == hmax
MadDataMax(hmax) == hmax + 1

Deviation(ii, median) == IF ii < median THEN median - ii ELSE ii - median

\* what finalizeData() computes of a histogram that is not finalized
Statistics(hist, hmax) ==
  LET numObjs    == NSum(hist, 0, hmax)
      weighted   == RSum([ii \in 0 .. hmax |-> Num(ii * hist[ii])], 0, hmax)
      mean1      == IF numObjs > 1 THEN RDiv(weighted, Num(numObjs)) ELSE weighted
      squares    == RSum([ii \in 0 .. hmax |->
                            RMul(RMul(Num(hist[ii]), RSub(Num(ii), mean1)),
                                 RSub(Num(ii), mean1))], 0, hmax)
      stddev1    == IF numObjs > 1
                      THEN RSqrt(RDiv(squares, Num(numObjs - 1)))
                      ELSE squares
      mode1      == ModeLoop(hist, hmax, 0, 0)
      median1    == MedianLoop(hist, hmax, numObjs, 0, 0)
      maddatamax == MadDataMax(hmax)
      assertOk   == \A ii \in 0 .. hmax :
                      hist[ii] > 0 => Deviation(ii, median1) < maddatamax
      maddata    == [dd \in 0 .. maddatamax - 1 |->
                       NSum([ii \in 0 .. hmax |->
                               IF Deviation(ii, median1) = dd THEN hist[ii] ELSE 0],
                            0, hmax)]
  IN  [numObjs |-> numObjs, mean |-> mean1, stddev |-> stddev1,
       mode |-> mode1, median |-> median1,
       mad |-> IF assertOk THEN MedianLoop(maddata, hmax, numObjs, 0, 0) ELSE 0,
       assertOk |-> assertOk]

\* the members after finalizeData(); a failed assert ends the process before
\* _mad is computed and before _finalized is set
finalizeDataOf(h) ==
  IF h.finalized = TRUE
    THEN h
    ELSE LET st == Statistics(h.histogram, h.histogramMax)
         IN  [h EXCEPT !.numObjs = st.numObjs, !.mean = st.mean,
                       !.stddev = st.stddev, !.mode = st.mode,
                       !.median = st.median, !.mad = st.mad,
                       !.finalized = st.assertOk, !.assertOk = st.assertOk]

\* the accessors that call finalizeData() before they return
ForcesAllButMad(fn) == fn \in {"numberOfObjects", "mean", "stddev", "median"}
Forces(fn) == fn \in {"numberOfObjects", "mean", "stddev", "median", "mad"}

Accessors == {"numberOfObjects", "mean", "stddev", "median", "mad",
              "histogram", "histogramMax"}

Void      == [kind |-> "void",   v |-> 0]
Uint64(n) == [kind |-> "uint64", v |-> n]
Double(x) == [kind |-> "double", v |-> x]

\* what accessor fn returns, of the members h it reads
Returned(h, fn, ii) ==
  CASE fn = "numberOfObjects" -> Uint64(h.numObjs)
    [] fn = "mean"            -> Double(h.mean)
    [] fn = "stddev"          -> Double(h.stddev)
    [] fn = "median"          -> Uint64(h.median)
    [] fn = "mad"             -> Uint64(h.mad)
    [] fn = "histogram"       -> Uint64(h.histogram[ii])
    [] fn = "histogramMax"    -> Uint64(h.histogramMax)

H == [finalized      |-> _finalized,
      histogramAlloc |-> _histogramAlloc,
      histogramMax   |-> _histogramMax,
      histogram      |-> _histogram,
      numObjs |-> _numObjs, mean |-> _mean, stddev |-> _stddev,
      mode |-> _mode, median |-> _median, mad |-> _mad,
      assertOk |-> h_assert]

Becomes(h) ==
  /\ _finalized' = h.finalized
  /\ _histogramAlloc' = h.histogramAlloc
  /\ _histogramMax' = h.histogramMax
  /\ _histogram' = h.histogram
  /\ _numObjs' = h.numObjs /\ _mean' = h.mean /\ _stddev' = h.stddev
  /\ _mode' = h.mode /\ _median' = h.median /\ _mad' = h.mad
  /\ h_assert' = h.assertOk

Call(fn, data, count) == [fn |-> fn, data |-> data, count |-> count]

NoUnits == [ii \in 0 .. MaxValue |-> 0]

HInit ==
  /\ _finalized = Constructed.finalized
  /\ _histogramAlloc = Constructed.histogramAlloc
  /\ _histogramMax = Constructed.histogramMax
  /\ _histogram = Constructed.histogram
  /\ _numObjs = Constructed.numObjs
  /\ _mean = Constructed.mean
  /\ _stddev = Constructed.stddev
  /\ _mode = Constructed.mode
  /\ _median = Constructed.median
  /\ _mad = Constructed.mad
  /\ h_assert = Constructed.assertOk
  /\ h_call = Call("histogramStatistics", 0, 0)
  /\ h_ret = Void
  /\ h_units = NoUnits
  /\ h_wasDirty = FALSE
  /\ h_unitAscending = TRUE

\* the process runs until an assert fails
HCanCall == h_assert = TRUE

add(data, count) ==
  /\ HCanCall
  /\ UNCHANGED <<sdVars, bVars>>
  /\ NSum(_histogram, 0, MaxValue) + count <= MaxTotal
  /\ Becomes(Added(H, data, count))
  /\ h_call' = Call("add", data, count)
  /\ h_ret' = Void
  /\ h_units' = [h_units EXCEPT ![data] = @ + count]
  /\ h_wasDirty' = ~_finalized
  /\ h_unitAscending' = (h_unitAscending /\ count = 1 /\ _histogramMax <= data)

clearStatistics ==
  /\ HCanCall
  /\ UNCHANGED <<sdVars, bVars>>
  /\ Becomes(Cleared(H))
  /\ h_call' = Call("clearStatistics", 0, 0)
  /\ h_ret' = Void
  /\ h_wasDirty' = ~_finalized
  /\ UNCHANGED <<h_units, h_unitAscending>>

finalizeData ==
  /\ HCanCall
  /\ UNCHANGED <<sdVars, bVars>>
  /\ Becomes(finalizeDataOf(H))
  /\ h_call' = Call("finalizeData", 0, 0)
  /\ h_ret' = Void
  /\ h_wasDirty' = ~_finalized
  /\ UNCHANGED <<h_units, h_unitAscending>>

\* numberOfObjects(), mean(), stddev(), median(), mad(), histogram(ii), histogramMax()
Accessor(fn, ii) ==
  /\ HCanCall
  /\ UNCHANGED <<sdVars, bVars>>
  /\ LET h == IF Forces(fn) THEN finalizeDataOf(H) ELSE H
     IN  /\ Becomes(h)
         /\ h_ret' = IF h.assertOk THEN Returned(h, fn, ii) ELSE Void
  /\ h_call' = Call(fn, ii, 0)
  /\ h_wasDirty' = ~_finalized
  /\ UNCHANGED <<h_units, h_unitAscending>>

HNext ==
  \/ \E data \in 0 .. MaxValue, count \in 0 .. MaxAddCount : add(data, count)
  \/ clearStatistics
  \/ finalizeData
  \/ \E fn \in Accessors \ {"histogram"} : Accessor(fn, 0)
  \/ \E ii \in 0 .. MaxValue : Accessor("histogram", ii)

(***************************************************************************)
(* The specifications: of the histogram statistics, of the online          *)
(* estimator, and of a caller of the offline estimators.                   *)
(***************************************************************************)
HFixed == HInit

Init == SdFixed /\ BFixed /\ HInit
Next == HNext
Spec == Init /\ [][Next]_vars

InitOnline == SdInit /\ BFixed /\ HFixed
NextOnline == SdNext
SpecOnline == InitOnline /\ [][NextOnline]_vars

InitBatch == SdFixed /\ BInit /\ HFixed
NextBatch == BNext
SpecBatch == InitBatch /\ [][NextBatch]_vars

(***************************************************************************)
(* Properties of histogramStatistics, under Spec.                          *)
(***************************************************************************)
Total == NSum(_histogram, 0, MaxValue)

Cache == [numObjs |-> _numObjs, mean |-> _mean, stddev |-> _stddev,
          mode |-> _mode, median |-> _median, mad |-> _mad]

CacheOf(st) == [numObjs |-> st.numObjs, mean |-> st.mean, stddev |-> st.stddev,
                mode |-> st.mode, median |-> st.median, mad |-> st.mad]

\* the smallest index at which twice the cumulative frequency reaches the total
HalfIndex(hist, hmax) ==
  CHOOSE i \in 0 .. hmax :
    /\ 2 * NSum(hist, 0, i) >= NSum(hist, 0, hmax)
    /\ \A j \in 0 .. i - 1 : 2 * NSum(hist, 0, j) < NSum(hist, 0, hmax)

\* C1: of a histogram that holds at least one sample, median() returns the
\* smallest index i with 2 * cumulative(i) >= total, for even and odd totals
C1_MedianIsSmallestHalfIndex ==
  (h_call.fn = "median" /\ Total > 0)
    => h_ret = Uint64(HalfIndex(_histogram, _histogramMax))

StatisticsAccessors == {"numberOfObjects", "mean", "stddev", "median", "mad"}

\* C3, as claimed: after any of the seven accessors returns, the finalized flag
\* is set and the cached statistics are those of the current histogram
C3_EveryAccessorForcesFinalization ==
  (h_call.fn \in Accessors /\ h_wasDirty)
    => /\ _finalized
       /\ Cache = CacheOf(Statistics(_histogram, _histogramMax))

\* C3, amended: after numberOfObjects, mean, stddev, median or mad returns from
\* a call made with the cache dirty, the finalized flag is set and the cached
\* statistics are those of the current histogram; histogram(i) and
\* histogramMax leave the flag as it was
C3_StatisticsAccessorsForceFinalization ==
  /\ (h_call.fn \in StatisticsAccessors /\ h_wasDirty)
       => /\ _finalized
          /\ Cache = CacheOf(Statistics(_histogram, _histogramMax))
  /\ h_call.fn \in {"histogram", "histogramMax"} => _finalized = ~h_wasDirty

C3_Witness ==
  /\ h_call.fn = "mad" /\ h_wasDirty /\ _finalized
  /\ Total >= 2 /\ _numObjs = Total /\ _median > 0

\* the histogram statistics built by adding every sample of `units` one at a
\* time, values ascending: v from value `data` on, `left` samples of it to add
RECURSIVE UnitBuilt(_, _, _, _)
UnitBuilt(h, units, data, left) ==
  IF data > MaxValue THEN h
  ELSE IF left = 0
         THEN UnitBuilt(h, units, data + 1,
                        IF data + 1 > MaxValue THEN 0 ELSE units[data + 1])
         ELSE UnitBuilt(Added(h, data, 1), units, data, left - 1)

UnitBuiltOf(units) == UnitBuilt(Constructed, units, 0, units[0])

\* C7: whatever the order and the grouping into counts of the add() calls, a
\* finalization gives the numberOfObjects, mean, stddev, mode, median and MAD
\* that adding the same samples one unit at a time gives
C7_OrderAndGroupingInvariance ==
  (h_wasDirty /\ _finalized)
    => Cache = CacheOf(Statistics(UnitBuiltOf(h_units).histogram,
                                  UnitBuiltOf(h_units).histogramMax))

C7_Witness ==
  /\ h_wasDirty /\ _finalized /\ ~h_unitAscending
  /\ Total = MaxTotal
  /\ \E v \in 0 .. MaxValue : h_units[v] >= 2
  /\ \E v \in 0 .. MaxValue : h_units[v] = 1

\* C9: a read returns what a full recompute from the current histogram gives
C9_ReadsAreCoherent ==
  h_call.fn \in StatisticsAccessors
    => /\ _numObjs = Total
       /\ h_ret = Returned(CacheOf(Statistics(_histogram, _histogramMax)),
                           h_call.fn, 0)

\* C10: of every reachable histogram the median finalizeData() computes is at
\* most _histogramMax, every deviation of a non-empty bucket is below
\* maddatamax, no index read of maddata reaches maddatamax, and the assert
\* has not failed
C10_MadAssertionUnreachable ==
  LET median1 == MedianLoop(_histogram, _histogramMax, Total, 0, 0)
  IN  /\ h_assert
      /\ median1 <= _histogramMax
      /\ \A ii \in 0 .. _histogramMax :
           _histogram[ii] > 0
             => Deviation(ii, median1) < MadDataMax(_histogramMax)
      /\ \A ii \in 0 .. _histogramMax : ii < MadDataMax(_histogramMax)
      /\ Statistics(_histogram, _histogramMax).assertOk

C10_Witness ==
  /\ _finalized /\ h_wasDirty /\ h_assert
  /\ _histogram[0] >= 2 /\ _histogram[MaxValue] = 1
  /\ _median = 0 /\ _mad = 0

(***************************************************************************)
(* Properties of stdDev, under SpecOnline.                                 *)
(***************************************************************************)
\* the real number a double stands for, its rounding left aside, and the
\* state of a stdDev in real numbers
Nominal(x) == [x EXCEPT !.r = FALSE, !.z = 1]
NominalSD(s) == [mn |-> Nominal(s.mn), sn |-> Nominal(s.sn), nn |-> s.nn]
IsRounded(s) == s.mn.r \/ s.sn.r

\* C5: once finalized, a stdDev stays finalized; no call changes its count,
\* mean or stored value; insert() and remove() end in exit(1); and finalize()
\* itself leaves size() and stddev() as they were
C5_FinalizeIsOneWay ==
  [][ /\ IsFinalized(_nn)
        => /\ IsFinalized(_nn')
           /\ _mn' = _mn /\ _sn' = _sn /\ _nn' = _nn
           /\ size(SD)' = size(SD)
           /\ stddev(SD)' = stddev(SD)
           /\ sd_call' \in {"insert", "remove"} => sd_status' = "exited"
      /\ sd_call' = "finalize"
        => /\ IsFinalized(_nn')
           /\ size(SD)' = size(SD)
           /\ mean(SD)' = mean(SD)
           /\ stddev(SD)' = stddev(SD)
    ]_vars

C5_Witness ==
  /\ IsFinalized(_nn) /\ sd_status = "exited"
  /\ sd_call \in {"insert", "remove"}
  /\ size(SD) >= 2 /\ Nominal(stddev(SD)) # Num(0)

\* insert(v) and then remove(v) of state s give s back: in real numbers
\* always, and in doubles too when no step of the two calls rounded
Restores(s) ==
  \A v \in SdVals :
    /\ ~InsertFails(s.nn)
    /\ ~RemoveFails(Inserted(s, v).nn)
    /\ NominalSD(Removed(Inserted(s, v), v)) = NominalSD(s)
    /\ (~IsRounded(s) /\ ~IsRounded(Inserted(s, v)))
         => Removed(Inserted(s, v), v) = s

\* C6, as claimed: of every stdDev that is neither finalized nor full, seeded
\* or not, insert(v) then remove(v) restore count, mean and S in exact
\* arithmetic
C6_InsertRemoveRestoresEveryState ==
  sd_undo.stage = "removed" => NominalSD(SD) = NominalSD(sd_undo.before)

\* C6, amended: in exact arithmetic they do when the stdDev holds a sample or
\* its mean is 0
C6_InsertRemoveRestores ==
  /\ (sd_status = "running" /\ ~IsFinalized(_nn) /\ ~IsFull(_nn)
       /\ _nn.cnt <= MaxCount /\ (_nn.cnt >= 1 \/ Nominal(_mn) = Num(0)))
       => Restores(SD)
  /\ (sd_undo.stage = "removed"
       /\ (sd_undo.before.nn.cnt >= 1 \/ Nominal(sd_undo.before.mn) = Num(0)))
       => NominalSD(SD) = NominalSD(sd_undo.before)

C6_Witness ==
  /\ sd_undo.stage = "removed" /\ NominalSD(SD) = NominalSD(sd_undo.before)
  /\ _nn.cnt >= 2 /\ Nominal(_sn) # Num(0) /\ ~sd_default
  /\ IsRounded(SD)

\* the mean and the unbiased variance of the values of a sequence, in exact
\* arithmetic
BatchSum(data) == RSum([i \in 1 .. Len(data) |-> Num(data[i])], 1, Len(data))
BatchMean(data) ==
  IF Len(data) = 0 THEN Num(0)
  ELSE Nominal(RDiv(BatchSum(data), Num(Len(data))))
BatchVariance(data) ==
  IF Len(data) < 2 THEN Num(0)
  ELSE Nominal(RDiv(RSum([i \in 1 .. Len(data) |->
                            RMul(RSub(Num(data[i]), BatchMean(data)),
                                 RSub(Num(data[i]), BatchMean(data)))],
                         1, Len(data)),
                    Num(Len(data) - 1)))

\* C8: of a default constructed stdDev, after every insert(), size() is the
\* number of values inserted and, in exact arithmetic, mean() is their mean
\* and variance() their unbiased variance, 0 of fewer than two values
C8_OnlineMatchesBatch ==
  sd_default
    => /\ size(SD) = Len(sd_data)
       /\ Nominal(mean(SD)) = BatchMean(sd_data)
       /\ Nominal(variance(SD)) = BatchVariance(sd_data)

C8_Witness ==
  /\ sd_default /\ sd_call = "insert" /\ ~IsFinalized(_nn)
  /\ Len(sd_data) >= 3
  /\ \E i, j \in 1 .. Len(sd_data) : sd_data[i] # sd_data[j]
  /\ Nominal(variance(SD)) # Num(0)
  /\ mean(SD).r

(***************************************************************************)
(* Properties of the offline estimators, under SpecBatch.                  *)
(***************************************************************************)
IsAscending(dist) == \A i \in 1 .. Len(dist) - 1 : dist[i] <= dist[i + 1]

Occurrences(dist, v) == Cardinality({i \in 1 .. Len(dist) : dist[i] = v})

\* the value of the longest run of the sorted sequence, the smallest of them
FirstLongestRun(dist) ==
  CHOOSE v \in BatchVals :
    /\ Occurrences(dist, v) > 0
    /\ \A w \in BatchVals : Occurrences(dist, w) <= Occurrences(dist, v)
    /\ \A w \in BatchVals : Occurrences(dist, w) = Occurrences(dist, v) => v <= w

\* C2: of a non-empty sequence (sorted by the call, or handed over sorted)
\* computeMode returns the value of the longest run, the first of them on a
\* tie; <<0,0,0,5,5,5>> has mode 0
C2_ModeIsFirstLongestRun ==
  (/\ b_call.fn = "computeMode"
   /\ callerDist # << >>
   /\ (b_call.isSorted => IsAscending(callerDist)))
    => b_mode = FirstLongestRun(callerDist)

\* C4, as claimed: a call with isSorted = false leaves the caller's sequence
\* sorted
C4_CallSortsCallerInPlace ==
  (b_call.fn # "none" /\ b_call.isSorted = FALSE) => IsAscending(callerDist)

\* C4, amended: a call leaves the caller's sequence as it was, whatever
\* isSorted, and changes only its own output parameters
C4_CallLeavesCallerUnchanged ==
  [][ /\ callerDist' = callerDist
      /\ b_call'.fn = "computeStdDev"
           => UNCHANGED <<b_mode, b_median, b_mad, sdVars, hVars>>
      /\ b_call'.fn = "computeMode"
           => UNCHANGED <<b_mean, b_stddev, b_median, b_mad, sdVars, hVars>>
      /\ b_call'.fn = "computeMedianAbsoluteDeviation"
           => UNCHANGED <<b_mean, b_stddev, b_mode, sdVars, hVars>>
    ]_vars

C4_Witness ==
  /\ b_call.fn = "computeMedianAbsoluteDeviation" /\ b_call.isSorted = FALSE
  /\ ~IsAscending(callerDist)
  /\ b_median > 0 /\ b_mad > 0

====
